---- MODULE Spec2Model ----
(***************************************************************************)
(* Model of the token-list factory (getTokensFactory): the read-through    *)
(* accessor, the orchestrator updateTokens, the full reconciliation        *)
(* updateTokenDetails and the id-only refresh updateTokenIds with its      *)
(* delayed retry passes.  Every await of the source is a suspension point  *)
(* of the model: an external call is issued by one action and resolved     *)
(* (or rejected) by a later one.                                           *)
(***************************************************************************)
EXTENDS Integers, Sequences, FiniteSets, TLC

\* ------------------------------------------------------------------ domain

\* Network identifiers (mainnet, rinkeby).
Networks == {1, 4}

\* Token addresses.
Addresses == {"A", "B", "C"}

\* Bound on the number of orchestrator runs started per network.
MaxRuns == 2

\* Attempts the retry helper makes before it propagates the failure.
RetryAttempts == 2

\* updateTokenIds: maxRetries = 3
DefaultMaxRetries == 3

\* updateTokenIds: retryDelay = 1000
DefaultRetryDelay == 1000

\* A TokenDetails record: address, slot id and display metadata.
Token(a, i, s) == [address |-> a, id |-> i, symbol |-> s]

Range(s) == {s[i] : i \in 1..Len(s)}

\* The addresses of a token list, in order.
Addrs(list) == [i \in 1..Len(list) |-> list[i].address]

AddrSet(list) == {list[i].address : i \in 1..Len(list)}

\* ------------------------------------------------------------------- state

VARIABLES
  activeNetworks,      \* networks the application queries
  cache,               \* tokenListApi: the list stored per network
  storeSharesObjects,  \* tokenListApi.getTokens hands out its own objects
  contract,            \* exchange contract: slot -> address, per network
  tcrApi,              \* factoryParams.tcrApi is given
  tcrTokens,           \* the registry's address set per network
  areTokensUpdated,    \* the update-state set
  pc,                  \* position of the refresh task of each network
  branch,              \* which refresh updateTokens chose in this run
  tries,               \* attempts of retry(getNumTokens) so far
  numTokens,           \* count fetched by the run
  localLen,            \* tokens.length read by the run
  tcrRes, tcrTries,    \* retry(fetchTcrAddresses): state, attempts
  scanRes, scanTries,  \* retry(fetchAddressesAndIds): state, attempts
  tcrSet,              \* tcrAddressesSet
  listed,              \* listedAddressesAndIds, as <<address, id>> pairs
  filtered,            \* filteredAddressesAndIds, as <<address, id>> pairs
  localTokens,         \* localTokens of updateTokenDetails
  probe,               \* getErc20DetailsOrAddress per address
  batch,               \* tokens of the current updateTokenIds pass
  status,              \* updateTokenIdOrIndicateFailure per address
  maxRetries,          \* maxRetries of the current / scheduled pass
  retryDelay,          \* retryDelay of the current / scheduled pass
  delays,              \* setTimeout delays scheduled since the run started
  passes,              \* query passes made since the run started
  failedAt,            \* where the last run failed
  failures,            \* runs that ended in the catch block of updateTokens
  ret,                 \* last value the accessor returned
  runs,                \* updateTokens calls per network
  cacheAtStart,        \* the cached list when the last run started
  cache0,              \* the cached lists at construction
  contract0            \* the contracts at construction

envVars == <<activeNetworks, storeSharesObjects, tcrApi, tcrTokens, cache0, contract0>>
orchVars == <<branch, tries, numTokens, localLen, failedAt, failures>>
detailVars == <<tcrRes, tcrTries, scanRes, scanTries, tcrSet, listed, filtered,
                localTokens, probe>>
idVars == <<batch, status, maxRetries, retryDelay, delays, passes>>

vars == <<activeNetworks, cache, storeSharesObjects, contract, tcrApi, tcrTokens,
          areTokensUpdated, pc, branch, tries, numTokens, localLen, tcrRes,
          tcrTries, scanRes, scanTries, tcrSet, listed, filtered, localTokens,
          probe, batch, status, maxRetries, retryDelay, delays, passes,
          failedAt, failures, ret, runs, cacheAtStart, cache0, contract0>>

\* ------------------------------------------------------- external interfaces

\* exchangeApi.getNumTokens
getNumTokens(n) == Len(contract[n])

\* exchangeApi.hasToken
hasToken(n, a) == a \in Range(contract[n])

\* exchangeApi.getTokenIdByAddress
getTokenIdByAddress(n, a) == (CHOOSE i \in 1..Len(contract[n]) : contract[n][i] = a) - 1

\* exchangeApi.getTokenAddressById
getTokenAddressById(n, tokenId) == contract[n][tokenId + 1]

\* getTokenFromErc20, when the address is a token: its address and metadata.
Erc20Details(a) == [address |-> a, symbol |-> "erc20"]

\* Map.get / Map.has on a map kept as a sequence of <<key, value>> pairs.
MapHas(m, k) == \E i \in 1..Len(m) : m[i][1] = k

MapGet(m, k) == m[CHOOSE i \in 1..Len(m) : m[i][1] = k][2]

MapKeys(m) == {m[i][1] : i \in 1..Len(m)}

\* new Map(list.map(t => [t.address, t])).get(a): the last entry wins.
TokenOf(list, a) ==
  list[CHOOSE i \in 1..Len(list) :
         /\ list[i].address = a
         /\ \A j \in 1..Len(list) : list[j].address = a => j <= i]

\* retry(fn): after a failed attempt another one is made while attempts remain.
RetryAgain(made) == made < RetryAttempts

\* ------------------------------------------------------------ pure functions

\* fetchAddressesAndIds: slots 0..numTokens-1 resolved to <<address, id>> pairs.
\* The contract never lists an address twice, so new Map(pairs) keeps them all.
fetchAddressesAndIds(n, num) == [i \in 1..num |-> <<getTokenAddressById(n, i - 1), i - 1>>]

\* fetchTcrAddresses: new Set(tcrApi && (await tcrApi.getTokens(networkId)))
fetchTcrAddresses(n) == IF tcrApi THEN tcrTokens[n] ELSE {}

\* Faulty variant of FilterByConfig: without a registry every listed address is eligible.
FilterByConfigAll(listedMap, tokensConfig) == listedMap

\* _getFilteredIdsMap without a registry: the cached addresses the scan gave a
\* slot, each with that slot id, in the order of the cached list.
FilterByConfig(listedMap, tokensConfig) ==
  LET kept == SelectSeq(tokensConfig, LAMBDA t : MapHas(listedMap, t.address))
  IN [i \in 1..Len(kept) |-> <<kept[i].address, MapGet(listedMap, kept[i].address)>>]

\* Faulty variant of FilterByTcr: the scan is not restricted to the registry list.
FilterByTcrIgnored(tcrAddressesSet, listedMap) == listedMap

\* _getFilteredIdsMap with a registry: the scanned slots of registry addresses.
FilterByTcr(tcrAddressesSet, listedMap) ==
  SelectSeq(listedMap, LAMBDA p : p[1] \in tcrAddressesSet)

getFilteredIdsMap(tcrAddressesSet, listedMap, tokensConfig) ==
  IF Cardinality(tcrAddressesSet) > 0
  THEN FilterByTcr(tcrAddressesSet, listedMap)
  ELSE FilterByConfig(listedMap, tokensConfig)

\* Faulty variant of LocalTokensOf: a reused token takes the id of its scanned slot.
LocalTokensRefreshed(filteredMap, list) ==
  LET known == SelectSeq(filteredMap, LAMBDA p : p[1] \in AddrSet(list))
  IN [i \in 1..Len(known) |-> [TokenOf(list, known[i][1]) EXCEPT !.id = known[i][2]]]

\* Faulty variant of LocalTokensOf: every cached token is kept, eligible or not.
LocalTokensAll(filteredMap, list) == list

\* updateTokenDetails: the eligible tokens the cache already holds, reused as is.
LocalTokensOf(filteredMap, list) ==
  LET known == SelectSeq(filteredMap, LAMBDA p : p[1] \in AddrSet(list))
  IN [i \in 1..Len(known) |-> TokenOf(list, known[i][1])]

\* Faulty variant of NewAddresses: every eligible address is probed, cached or not.
NewAddressesAll(filteredMap, list) == MapKeys(filteredMap)

\* updateTokenDetails: the eligible addresses that need a metadata fetch.
NewAddresses(filteredMap, list) ==
  {filteredMap[i][1] : i \in {j \in 1..Len(filteredMap) : filteredMap[j][1] \notin AddrSet(list)}}

\* Faulty variant of FetchedTokens: a null probe result is not filtered out.
FetchedTokensUnfiltered(filteredMap, probed) ==
  LET got == SelectSeq(filteredMap, LAMBDA p : probed[p[1]] \in {"token", "null"})
  IN [i \in 1..Len(got) |-> Token(got[i][1], got[i][2], "erc20")]

\* updateTokenDetails: { ...partialToken, id } for every probe that gave details,
\* in the order of the eligible map; null results are filtered out (notEmpty).
FetchedTokens(filteredMap, probed) ==
  LET got == SelectSeq(filteredMap, LAMBDA p : probed[p[1]] = "token")
  IN [i \in 1..Len(got) |->
        [address |-> Erc20Details(got[i][1]).address,
         id |-> got[i][2],
         symbol |-> Erc20Details(got[i][1]).symbol]]

\* updateTokenDetails: tokenList = localTokens.concat(fetchedAndFilledTokenDetails)
DetailsTokenList(locals, filteredMap, probed) == locals \o FetchedTokens(filteredMap, probed)

\* Faulty variant of NeedsDetails: an equal count also takes the full reconciliation.
NeedsDetailsOrEqual(num, len) == num >= len

\* updateTokens: more tokens in the contract than locally.
NeedsDetails(num, len) == num > len

\* updateTokenIds: classification of the results of a pass.
ToRemove(tokens, st) == {a \in AddrSet(tokens) : st[a] = "remove"}

\* Faulty variant of FailedToUpdate: the retry pass gets every token of the pass.
FailedToUpdateAll(tokens, st) == tokens

FailedToUpdate(tokens, st) == SelectSeq(tokens, LAMBDA t : st[t.address] = "failed")

Updated(tokens, st) == SelectSeq(tokens, LAMBDA t : st[t.address] = "updated")

\* Faulty variant of RebuildList: updated records are substituted, nothing is dropped.
RebuildKeepRemoved(current, toRemove, updated) ==
  [i \in 1..Len(current) |->
     IF current[i].address \in AddrSet(updated)
     THEN TokenOf(updated, current[i].address)
     ELSE current[i]]

\* updateTokenIds: the new list built from the current list of tokens.
RebuildList(current, toRemove, updated) ==
  LET kept == SelectSeq(current, LAMBDA t : t.address \notin toRemove)
  IN [i \in 1..Len(kept) |->
        IF kept[i].address \in AddrSet(updated)
        THEN TokenOf(updated, kept[i].address)
        ELSE kept[i]]

\* updateTokenIds persists only if there was anything updated/removed.
ShouldPersist(toRemove, updated) == Cardinality(toRemove) > 0 \/ Len(updated) > 0

\* updateTokenIds: exponentialBackOff = true, and no caller passes another value.
ExponentialBackOff == TRUE

\* Faulty variant of NextDelay: the delay is not doubled.
NextDelaySame(delay) == delay

\* updateTokenIds: nextDelay = retryDelay * (exponentialBackOff ? 2 : 1)
NextDelay(delay) == delay * (IF ExponentialBackOff THEN 2 ELSE 1)

\* Faulty variant of NextMaxRetries: the scheduled pass gets the same budget.
NextMaxRetriesSame(left) == left

\* updateTokenIds: maxRetries - 1 is handed to the scheduled pass.
NextMaxRetries(left) == left - 1

\* updateTokenIds: if (maxRetries <= 0) throw
RetriesExceeded(left) == left <= 0

\* token.id = ...: the write to the token object, seen through a list holding it.
WriteId(list, a, newId) ==
  [i \in 1..Len(list) |->
     IF list[i].address = a THEN [list[i] EXCEPT !.id = newId] ELSE list[i]]

\* Faulty variant of ShouldTrigger: the accessor does not test the flag.
ShouldTriggerAlways(n) == TRUE

\* The accessor's test: if (!areTokensUpdated.has(networkId))
ShouldTrigger(n) == n \notin areTokensUpdated

\* Faulty variant of AccessorReturn: the accessor waits for the contract and returns
\* only the tokens the exchange has.
AccessorReturnRefreshed(n) == SelectSeq(cache[n], LAMBDA t : hasToken(n, t.address))

\* The accessor's return value: return tokenListApi.getTokens(networkId)
AccessorReturn(n) == cache[n]

\* -------------------------------------------------------------------- Init

NoStatus == [a \in Addresses |-> "none"]

\* Token lists of the configuration: ids as listed in the config file.
ConfigList(addrs) == [i \in 1..Len(addrs) |-> Token(addrs[i], i - 1, "cfg")]

\* The address lists a configuration file may hold for a network.
ConfigAddresses == {<<>>, <<"A">>, <<"A", "B">>}

\* The tokens an exchange may list, in slot order, at construction.
ListedAtStart == {<<>>, <<"A">>, <<"A", "B">>, <<"B", "A">>, <<"A", "C">>}

\* What a network that is never queried holds.
Unused(n) ==
  /\ cache0[n] = <<>>
  /\ contract0[n] = <<>>
  /\ tcrTokens[n] = {}

InitTask ==
  /\ areTokensUpdated = {}
  /\ pc = [n \in Networks |-> "idle"]
  /\ branch = [n \in Networks |-> "none"]
  /\ tries = [n \in Networks |-> 0]
  /\ numTokens = [n \in Networks |-> 0]
  /\ localLen = [n \in Networks |-> 0]
  /\ tcrRes = [n \in Networks |-> "none"]
  /\ tcrTries = [n \in Networks |-> 0]
  /\ scanRes = [n \in Networks |-> "none"]
  /\ scanTries = [n \in Networks |-> 0]
  /\ tcrSet = [n \in Networks |-> {}]
  /\ listed = [n \in Networks |-> <<>>]
  /\ filtered = [n \in Networks |-> <<>>]
  /\ localTokens = [n \in Networks |-> <<>>]
  /\ probe = [n \in Networks |-> NoStatus]
  /\ batch = [n \in Networks |-> <<>>]
  /\ status = [n \in Networks |-> NoStatus]
  /\ maxRetries = [n \in Networks |-> 0]
  /\ retryDelay = [n \in Networks |-> 0]
  /\ delays = [n \in Networks |-> <<>>]
  /\ passes = [n \in Networks |-> 0]
  /\ failedAt = [n \in Networks |-> "none"]
  /\ failures = [n \in Networks |-> 0]
  /\ ret = [networkId |-> 0, tokens |-> <<>>]
  /\ runs = [n \in Networks |-> 0]
  /\ cacheAtStart = [n \in Networks |-> <<>>]

\* One queried network: its cached list, its contract and the registry vary.
Init ==
  /\ activeNetworks = {1}
  /\ storeSharesObjects \in BOOLEAN
  /\ cache0 \in [Networks -> {ConfigList(q) : q \in ConfigAddresses}]
  /\ contract0 \in [Networks -> ListedAtStart]
  /\ tcrApi \in BOOLEAN
  /\ tcrTokens \in [Networks -> {{}, {"A", "C"}}]
  /\ ~tcrApi => \A n \in Networks : tcrTokens[n] = {}
  /\ \A n \in Networks \ activeNetworks : Unused(n)
  /\ cache = cache0
  /\ contract = contract0
  /\ InitTask

\* ----------------------------------------------------------------- actions

\* Faulty variant of MarkAttempted: the flag is not set before the first await.
MarkAttemptedAfterAwait(n) == areTokensUpdated

\* areTokensUpdated.add(networkId), the first statement of updateTokens.
MarkAttempted(n) == areTokensUpdated \cup {n}

\* updateTokens up to its first await: the flag is set and the count fetch issued.
StartUpdateTokens(n) ==
  /\ areTokensUpdated' = MarkAttempted(n)
  /\ pc' = [pc EXCEPT ![n] = "getNumTokens"]
  /\ tries' = [tries EXCEPT ![n] = 1]
  /\ runs' = [runs EXCEPT ![n] = @ + 1]
  /\ cacheAtStart' = [cacheAtStart EXCEPT ![n] = cache[n]]
  /\ branch' = [branch EXCEPT ![n] = "none"]
  /\ numTokens' = [numTokens EXCEPT ![n] = 0]
  /\ localLen' = [localLen EXCEPT ![n] = 0]
  /\ failedAt' = [failedAt EXCEPT ![n] = "none"]
  /\ UNCHANGED failures
  /\ tcrRes' = [tcrRes EXCEPT ![n] = "none"]
  /\ tcrTries' = [tcrTries EXCEPT ![n] = 0]
  /\ scanRes' = [scanRes EXCEPT ![n] = "none"]
  /\ scanTries' = [scanTries EXCEPT ![n] = 0]
  /\ tcrSet' = [tcrSet EXCEPT ![n] = {}]
  /\ listed' = [listed EXCEPT ![n] = <<>>]
  /\ filtered' = [filtered EXCEPT ![n] = <<>>]
  /\ localTokens' = [localTokens EXCEPT ![n] = <<>>]
  /\ probe' = [probe EXCEPT ![n] = NoStatus]
  /\ batch' = [batch EXCEPT ![n] = <<>>]
  /\ status' = [status EXCEPT ![n] = NoStatus]
  /\ maxRetries' = [maxRetries EXCEPT ![n] = 0]
  /\ retryDelay' = [retryDelay EXCEPT ![n] = 0]
  /\ delays' = [delays EXCEPT ![n] = <<>>]
  /\ passes' = [passes EXCEPT ![n] = 0]

\* The accessor: starts updateTokens unless the network is marked, and returns
\* the cached list.  updateTokens is not awaited.
GetTokens(n) ==
  /\ n \in activeNetworks
  /\ n \in areTokensUpdated \/ runs[n] < MaxRuns
  /\ ret' = [networkId |-> n, tokens |-> AccessorReturn(n)]
  /\ IF ShouldTrigger(n)
     THEN StartUpdateTokens(n)
     ELSE UNCHANGED <<areTokensUpdated, pc, runs, cacheAtStart, orchVars, detailVars,
                     idVars>>
  /\ UNCHANGED <<cache, contract, envVars>>

\* Faulty variant of CacheAfterCatch: the failure handler persists an empty list.
CacheAfterCatchCleared(n) == [cache EXCEPT ![n] = <<>>]

\* The cached lists after the catch block of updateTokens, which persists nothing.
CacheAfterCatch(n) == cache

\* Faulty variant of Catch: the failure handler empties the update-state set.
CatchClearAll(n, where) ==
  /\ areTokensUpdated' = {}
  /\ cache' = CacheAfterCatch(n)
  /\ pc' = [pc EXCEPT ![n] = "failed"]
  /\ failedAt' = [failedAt EXCEPT ![n] = where]
  /\ failures' = [failures EXCEPT ![n] = @ + 1]

\* The catch block of updateTokens: the flag is cleared.
Catch(n, where) ==
  /\ areTokensUpdated' = areTokensUpdated \ {n}
  /\ cache' = CacheAfterCatch(n)
  /\ pc' = [pc EXCEPT ![n] = "failed"]
  /\ failedAt' = [failedAt EXCEPT ![n] = where]
  /\ failures' = [failures EXCEPT ![n] = @ + 1]

\* updateTokenIds up to its await: the maxRetries check, then one
\* updateTokenIdOrIndicateFailure per token, each with its hasToken call issued.
StartPass(n, tokens, left, delay) ==
  /\ pc' = [pc EXCEPT ![n] = "ids"]
  /\ batch' = [batch EXCEPT ![n] = tokens]
  /\ status' = [status EXCEPT ![n] =
                  [a \in Addresses |-> IF a \in AddrSet(tokens) THEN "hasToken" ELSE "none"]]
  /\ maxRetries' = [maxRetries EXCEPT ![n] = left]
  /\ retryDelay' = [retryDelay EXCEPT ![n] = delay]
  /\ passes' = [passes EXCEPT ![n] = @ + 1]

\* retry(getNumTokens) resolves; updateTokens reads the local list and chooses.
GetNumTokensResolve(n) ==
  /\ pc[n] = "getNumTokens"
  /\ LET num == getNumTokens(n)
         tokens == cache[n]
     IN /\ numTokens' = [numTokens EXCEPT ![n] = num]
        /\ localLen' = [localLen EXCEPT ![n] = Len(tokens)]
        /\ IF NeedsDetails(num, Len(tokens))
           THEN /\ branch' = [branch EXCEPT ![n] = "details"]
                /\ pc' = [pc EXCEPT ![n] = "filter"]
                /\ tcrRes' = [tcrRes EXCEPT ![n] = "pending"]
                /\ tcrTries' = [tcrTries EXCEPT ![n] = 1]
                /\ scanRes' = [scanRes EXCEPT ![n] = "pending"]
                /\ scanTries' = [scanTries EXCEPT ![n] = 1]
                /\ UNCHANGED <<cache, areTokensUpdated, failedAt, failures, idVars>>
           ELSE /\ branch' = [branch EXCEPT ![n] = "ids"]
                /\ IF RetriesExceeded(DefaultMaxRetries)
                   THEN /\ Catch(n, "ids")
                        /\ UNCHANGED idVars
                   ELSE /\ StartPass(n, tokens, DefaultMaxRetries, DefaultRetryDelay)
                        /\ UNCHANGED <<cache, areTokensUpdated, failedAt, failures,
                                       delays>>
                /\ UNCHANGED <<tcrRes, tcrTries, scanRes, scanTries>>
  /\ UNCHANGED <<contract, envVars, tries, tcrSet, listed, filtered,
                 localTokens, probe, ret, runs,
                 cacheAtStart>>

\* An attempt of getNumTokens throws: retry makes another, or updateTokens catches.
GetNumTokensReject(n) ==
  /\ pc[n] = "getNumTokens"
  /\ IF RetryAgain(tries[n])
     THEN /\ tries' = [tries EXCEPT ![n] = @ + 1]
          /\ UNCHANGED <<cache, areTokensUpdated, pc, failedAt, failures>>
     ELSE /\ Catch(n, "getNumTokens")
          /\ UNCHANGED tries
  /\ UNCHANGED <<contract, envVars, branch, numTokens, localLen, detailVars,
                 idVars, ret, runs,
                 cacheAtStart>>

\* retry(fetchTcrAddresses) resolves with the registry's set (empty without tcrApi).
TcrResolve(n) ==
  /\ pc[n] = "filter"
  /\ tcrRes[n] = "pending"
  /\ tcrRes' = [tcrRes EXCEPT ![n] = "ok"]
  /\ tcrSet' = [tcrSet EXCEPT ![n] = fetchTcrAddresses(n)]
  /\ UNCHANGED <<cache, contract, envVars, areTokensUpdated, pc, orchVars, tcrTries,
                 scanRes, scanTries, listed, filtered, localTokens, probe, idVars,
                 ret, runs,
                 cacheAtStart>>

\* An attempt of tcrApi.getTokens throws: retry makes another, or Promise.all
\* rejects and updateTokens catches.
TcrReject(n) ==
  /\ pc[n] = "filter"
  /\ tcrRes[n] = "pending"
  /\ tcrApi
  /\ IF RetryAgain(tcrTries[n])
     THEN /\ tcrTries' = [tcrTries EXCEPT ![n] = @ + 1]
          /\ UNCHANGED <<cache, areTokensUpdated, pc, failedAt, failures>>
     ELSE /\ Catch(n, "tcr")
          /\ UNCHANGED tcrTries
  /\ UNCHANGED <<contract, envVars, branch, tries, numTokens, localLen,
                 tcrRes, scanRes, scanTries, tcrSet, listed, filtered, localTokens,
                 probe, idVars, ret, runs,
                 cacheAtStart>>

\* retry(fetchAddressesAndIds) resolves: every slot lookup of an attempt answered.
ScanResolve(n) ==
  /\ pc[n] = "filter"
  /\ scanRes[n] = "pending"
  /\ scanRes' = [scanRes EXCEPT ![n] = "ok"]
  /\ listed' = [listed EXCEPT ![n] = fetchAddressesAndIds(n, numTokens[n])]
  /\ UNCHANGED <<cache, contract, envVars, areTokensUpdated, pc, orchVars, tcrRes,
                 tcrTries, scanTries, tcrSet, filtered, localTokens, probe, idVars,
                 ret, runs,
                 cacheAtStart>>

\* A slot lookup throws, so the attempt's Promise.all rejects: retry makes another
\* attempt, or the outer Promise.all rejects and updateTokens catches.
ScanReject(n) ==
  /\ pc[n] = "filter"
  /\ scanRes[n] = "pending"
  /\ numTokens[n] > 0
  /\ IF RetryAgain(scanTries[n])
     THEN /\ scanTries' = [scanTries EXCEPT ![n] = @ + 1]
          /\ UNCHANGED <<cache, areTokensUpdated, pc, failedAt, failures>>
     ELSE /\ Catch(n, "scan")
          /\ UNCHANGED scanTries
  /\ UNCHANGED <<contract, envVars, branch, tries, numTokens, localLen,
                 tcrRes, tcrTries, scanRes, tcrSet, listed, filtered, localTokens,
                 probe, idVars, ret, runs,
                 cacheAtStart>>

\* _getFilteredIdsMap after its await: the eligible map is computed and returned.
FilterIds(n) ==
  /\ pc[n] = "filter"
  /\ tcrRes[n] = "ok"
  /\ scanRes[n] = "ok"
  /\ filtered' = [filtered EXCEPT ![n] = getFilteredIdsMap(tcrSet[n], listed[n], cache[n])]
  /\ pc' = [pc EXCEPT ![n] = "partition"]
  /\ UNCHANGED <<cache, contract, envVars, areTokensUpdated, orchVars, tcrRes,
                 tcrTries, scanRes, scanTries, tcrSet, listed, localTokens, probe,
                 idVars, ret, runs,
                 cacheAtStart>>

\* updateTokenDetails after its first await: known tokens are reused, and a
\* metadata probe is issued for every other eligible address.
Partition(n) ==
  /\ pc[n] = "partition"
  /\ localTokens' = [localTokens EXCEPT ![n] = LocalTokensOf(filtered[n], cache[n])]
  /\ probe' = [probe EXCEPT ![n] =
                 [a \in Addresses |->
                    IF a \in NewAddresses(filtered[n], cache[n]) THEN "pending" ELSE "none"]]
  /\ pc' = [pc EXCEPT ![n] = "probes"]
  /\ UNCHANGED <<cache, contract, envVars, areTokensUpdated, orchVars, tcrRes,
                 tcrTries, scanRes, scanTries, tcrSet, listed, filtered, idVars,
                 ret, runs,
                 cacheAtStart>>

\* getTokenFromErc20 resolves: with the details of the token, or with null.
ProbeResolve(n, a) ==
  /\ pc[n] = "probes"
  /\ probe[n][a] = "pending"
  /\ \E r \in {"token", "null"} : probe' = [probe EXCEPT ![n][a] = r]
  /\ UNCHANGED <<cache, contract, envVars, areTokensUpdated, pc, orchVars, tcrRes,
                 tcrTries, scanRes, scanTries, tcrSet, listed, filtered, localTokens,
                 idVars, ret, runs,
                 cacheAtStart>>

\* getTokenFromErc20 rejects: Promise.all rejects and updateTokens catches.
ProbeReject(n, a) ==
  /\ pc[n] = "probes"
  /\ probe[n][a] = "pending"
  /\ probe' = [probe EXCEPT ![n][a] = "threw"]
  /\ Catch(n, "probe")
  /\ UNCHANGED <<contract, envVars, branch, tries, numTokens, localLen,
                 tcrRes, tcrTries, scanRes, scanTries, tcrSet, listed, filtered,
                 localTokens, idVars, ret, runs,
                 cacheAtStart>>

\* updateTokenDetails after Promise.all: the merged list is persisted.
PersistDetails(n) ==
  /\ pc[n] = "probes"
  /\ \A a \in Addresses : probe[n][a] # "pending"
  /\ cache' = [cache EXCEPT ![n] = DetailsTokenList(localTokens[n], filtered[n], probe[n])]
  /\ pc' = [pc EXCEPT ![n] = "done"]
  /\ UNCHANGED <<contract, envVars, areTokensUpdated, orchVars, detailVars, idVars,
                 ret, runs,
                 cacheAtStart>>

\* hasToken resolves: false marks the token for removal, true issues the id fetch.
HasTokenResolve(n, a) ==
  /\ pc[n] = "ids"
  /\ status[n][a] = "hasToken"
  /\ status' = [status EXCEPT ![n][a] = IF hasToken(n, a) THEN "getId" ELSE "remove"]
  /\ UNCHANGED <<cache, contract, envVars, areTokensUpdated, pc, orchVars, detailVars,
                 batch, maxRetries, retryDelay, delays, passes, ret, runs,
                 cacheAtStart>>

\* getTokenIdByAddress resolves: the id is written to the token object.
GetIdResolve(n, a) ==
  /\ pc[n] = "ids"
  /\ status[n][a] = "getId"
  /\ status' = [status EXCEPT ![n][a] = "updated"]
  /\ batch' = [batch EXCEPT ![n] = WriteId(@, a, getTokenIdByAddress(n, a))]
  /\ cache' = IF storeSharesObjects
              THEN [cache EXCEPT ![n] = WriteId(@, a, getTokenIdByAddress(n, a))]
              ELSE cache
  /\ UNCHANGED <<contract, envVars, areTokensUpdated, pc, orchVars, detailVars,
                 maxRetries, retryDelay, delays, passes, ret, runs,
                 cacheAtStart>>

\* hasToken or getTokenIdByAddress throws: the token is marked failed, unchanged.
IdQueryReject(n, a) ==
  /\ pc[n] = "ids"
  /\ status[n][a] \in {"hasToken", "getId"}
  /\ status' = [status EXCEPT ![n][a] = "failed"]
  /\ UNCHANGED <<cache, contract, envVars, areTokensUpdated, pc, orchVars, detailVars,
                 batch, maxRetries, retryDelay, delays, passes, ret, runs,
                 cacheAtStart>>

\* Faulty variant of CurrentList: the list the orchestrator read when the run began.
CurrentListAtStart(n) == cacheAtStart[n]

\* tokenListApi.getTokens(networkId) inside updateTokenIds: the list as cached now.
CurrentList(n) == cache[n]

\* updateTokenIds after Promise.all: classify, rebuild and persist the list if
\* anything was updated or removed, and schedule a pass over the failed tokens.
ProcessResults(n) ==
  /\ pc[n] = "ids"
  /\ \A a \in Addresses : status[n][a] \in {"none", "remove", "failed", "updated"}
  /\ LET toRemove == ToRemove(batch[n], status[n])
         updated == Updated(batch[n], status[n])
         failedToUpdate == FailedToUpdate(batch[n], status[n])
     IN /\ cache' = IF ShouldPersist(toRemove, updated)
                    THEN [cache EXCEPT ![n] = RebuildList(CurrentList(n), toRemove, updated)]
                    ELSE cache
        /\ IF Len(failedToUpdate) > 0
           THEN /\ pc' = [pc EXCEPT ![n] = "timer"]
                /\ delays' = [delays EXCEPT ![n] = Append(@, retryDelay[n])]
                /\ batch' = [batch EXCEPT ![n] = failedToUpdate]
                /\ maxRetries' = [maxRetries EXCEPT ![n] = NextMaxRetries(@)]
                /\ retryDelay' = [retryDelay EXCEPT ![n] = NextDelay(@)]
           ELSE /\ pc' = [pc EXCEPT ![n] = "done"]
                /\ UNCHANGED <<delays, batch, maxRetries, retryDelay>>
  /\ UNCHANGED <<contract, envVars, areTokensUpdated, orchVars, detailVars, status,
                 passes, ret, runs,
                 cacheAtStart>>

\* The timer fires: updateTokenIds runs on the failed tokens.  Its throw rejects
\* the promise of the timer callback, which nothing awaits.
TimerFires(n) ==
  /\ pc[n] = "timer"
  /\ IF RetriesExceeded(maxRetries[n])
     THEN /\ pc' = [pc EXCEPT ![n] = "fatal"]
          /\ UNCHANGED idVars
     ELSE /\ StartPass(n, batch[n], maxRetries[n], retryDelay[n])
          /\ UNCHANGED delays
  /\ UNCHANGED <<cache, contract, envVars, areTokensUpdated, orchVars, detailVars,
                 ret, runs,
                 cacheAtStart>>

\* The exchange lists another token: it takes the next slot.
AddToken(n, a) ==
  /\ n \in activeNetworks
  /\ a \notin Range(contract[n])
  /\ contract' = [contract EXCEPT ![n] = Append(@, a)]
  /\ UNCHANGED <<cache, envVars, areTokensUpdated, pc, orchVars, detailVars, idVars,
                 ret, runs,
                 cacheAtStart>>

Next ==
  \/ \E n \in Networks : GetTokens(n)
  \/ \E n \in Networks : GetNumTokensResolve(n)
  \/ \E n \in Networks : GetNumTokensReject(n)
  \/ \E n \in Networks : TcrResolve(n)
  \/ \E n \in Networks : TcrReject(n)
  \/ \E n \in Networks : ScanResolve(n)
  \/ \E n \in Networks : ScanReject(n)
  \/ \E n \in Networks : FilterIds(n)
  \/ \E n \in Networks : Partition(n)
  \/ \E n \in Networks, a \in Addresses : ProbeResolve(n, a)
  \/ \E n \in Networks, a \in Addresses : ProbeReject(n, a)
  \/ \E n \in Networks : PersistDetails(n)
  \/ \E n \in Networks, a \in Addresses : HasTokenResolve(n, a)
  \/ \E n \in Networks, a \in Addresses : GetIdResolve(n, a)
  \/ \E n \in Networks, a \in Addresses : IdQueryReject(n, a)
  \/ \E n \in Networks : ProcessResults(n)
  \/ \E n \in Networks : TimerFires(n)
  \/ \E n \in Networks, a \in Addresses : AddToken(n, a)

Spec == Init /\ [][Next]_vars

\* A step of the refresh task of network n: an external call returns or fails and
\* the code after its await runs, or the retry timer fires.
Completion(n) ==
  \/ GetNumTokensResolve(n)
  \/ GetNumTokensReject(n)
  \/ TcrResolve(n)
  \/ TcrReject(n)
  \/ ScanResolve(n)
  \/ ScanReject(n)
  \/ FilterIds(n)
  \/ Partition(n)
  \/ \E a \in Addresses : ProbeResolve(n, a)
  \/ \E a \in Addresses : ProbeReject(n, a)
  \/ PersistDetails(n)
  \/ \E a \in Addresses : HasTokenResolve(n, a)
  \/ \E a \in Addresses : GetIdResolve(n, a)
  \/ \E a \in Addresses : IdQueryReject(n, a)
  \/ ProcessResults(n)
  \/ TimerFires(n)

\* A step of the accessor or of the refresh task of network n.
NetworkStep(n) == GetTokens(n) \/ Completion(n)

\* One queried network with a registry client, whose list may be empty; the
\* contract lists one or two tokens at construction.
InitFair ==
  /\ Init
  /\ tcrApi
  /\ ~storeSharesObjects
  /\ contract0[1] \in {<<"A">>, <<"B", "A">>, <<"A", "C">>}

\* Every external call eventually returns or fails, and every timer fires.
SpecFair ==
  /\ InitFair
  /\ [][Next]_vars
  /\ \A n \in Networks : WF_vars(Completion(n))

\* Both networks are queried and the contracts list nothing new meanwhile:
\* network 1 has a cached token whose configured id is not its slot, network 4
\* a cached token and a contract that lists a second one; both have a registry,
\* and the cache hands out its own token objects.
InitNetworks ==
  /\ activeNetworks = Networks
  /\ storeSharesObjects = TRUE
  /\ cache0 = [n \in Networks |-> IF n = 1 THEN Tail(ConfigList(<<"B", "A">>))
                                             ELSE ConfigList(<<"A">>)]
  /\ contract0 = [n \in Networks |-> IF n = 1 THEN <<"A">> ELSE <<"A", "C">>]
  /\ tcrApi = TRUE
  /\ tcrTokens = [n \in Networks |-> {"A", "C"}]
  /\ cache = cache0
  /\ contract = contract0
  /\ InitTask

NextNetworks == \E n \in Networks : NetworkStep(n)

SpecNetworks == InitNetworks /\ [][NextNetworks]_vars

\* ------------------------------------------------------------------ claims

\* C1: a call of the accessor getTokens(networkId) returns the list cached for
\* that network at the moment of the call, in one step in which no external call
\* completes (the only change to a refresh task is that the task of this network
\* may start); a failed or fatally ended refresh is a position of the task, and
\* the call made in such a state returns the cached list like any other.
C1_AccessorReturnsCache ==
  [][\A n \in Networks :
       GetTokens(n) =>
         /\ ret'.networkId = n
         /\ ret'.tokens = cache[n]
         /\ cache' = cache
         /\ contract' = contract
         /\ \A m \in Networks :
              pc'[m] # pc[m] => m = n /\ pc'[m] = "getNumTokens"]_vars

\* C1 witness: after a failed run and a second, fatally ended one the accessor
\* has returned the cached list.
C1_Witness ==
  /\ failures[1] = 1
  /\ pc[1] = "fatal"
  /\ ret.networkId = 1
  /\ ret.tokens = cache[1]
  /\ Len(ret.tokens) > 0

\* C2 as stated: while the cached list and the contract of a network are as they
\* were at construction, the accessor has triggered at most one refresh for it.
C2_ExactlyOneRefresh ==
  \A n \in Networks :
    cache[n] = cache0[n] /\ contract[n] = contract0[n] => runs[n] <= 1

\* C2 amended: every call returns the cached list, a call made while the network
\* is marked triggers nothing, and the refreshes triggered for a network are one
\* per run that ended in the failure handler plus one while the network is
\* marked: exactly one as long as no run has failed.
C2_OneRefreshPerFailure ==
  /\ [](\A n \in Networks :
          runs[n] = failures[n] + (IF n \in areTokensUpdated THEN 1 ELSE 0))
  /\ [][\A n \in Networks :
          GetTokens(n) =>
            /\ ret'.tokens = cache[n]
            /\ n \in areTokensUpdated =>
                 runs'[n] = runs[n] /\ pc'[n] = pc[n] /\ areTokensUpdated' = areTokensUpdated]_vars

\* C2 witness: one run, no failure, and a call made after the refresh persisted
\* a changed list returned that list without triggering another run.
C2_Witness ==
  /\ failures[1] = 0
  /\ runs[1] = 1
  /\ pc[1] = "done"
  /\ cache[1] # cache0[1]
  /\ ret.networkId = 1
  /\ ret.tokens = cache[1]

\* C3 as stated: a run that failed in its count fetch, its full reconciliation
\* or its id-only refresh has left the network out of the update-state set, so
\* that the next accessor call starts a new run.
C3_FailureClearsFlag ==
  \A n \in Networks :
    pc[n] \in {"failed", "fatal"} => n \notin areTokensUpdated /\ ShouldTrigger(n)

\* C4 as stated: once the id-refresh retries are exhausted the affected tokens
\* are still cached and the network is no longer marked update-attempted, so
\* the next accessor call triggers a new refresh.
C4_ExhaustedRetriesRetrigger ==
  \A n \in Networks :
    pc[n] = "fatal" =>
      /\ AddrSet(batch[n]) \subseteq AddrSet(cache[n])
      /\ n \notin areTokensUpdated

\* C5 as stated: without a registry, a full reconciliation of cache [A,B] against
\* the contract tokens [A,B,C] resolves C and persists [A,B,C] (unless the probe
\* of C finds it is not a token).
C5_NewTokenResolvedWithoutRegistry ==
  \A n \in Networks :
    ( /\ pc[n] = "done"
      /\ branch[n] = "details"
      /\ tcrSet[n] = {}
      /\ cache0[n] = ConfigList(<<"A", "B">>)
      /\ listed[n] = <<(<<"A", 0>>), (<<"B", 1>>), (<<"C", 2>>)>> )
    => Addrs(cache[n]) = <<"A", "B", "C">> \/ probe[n]["C"] = "null"

\* C5 amended: with the registry absent or empty, a full reconciliation probes
\* no address and persists exactly the cached tokens that the contract scan
\* gives a slot, unchanged and in their cached order; for cache [A,B] and the
\* contract tokens [A,B,C] the persisted list is [A,B].
C5_NoRegistryKeepsCachedOnly ==
  \A n \in Networks :
    (pc[n] = "done" /\ branch[n] = "details" /\ tcrSet[n] = {})
    => /\ \A a \in Addresses : probe[n][a] = "none"
       /\ cache[n] = SelectSeq(cache0[n], LAMBDA t : t.address \in MapKeys(listed[n]))

\* C5 witness: cache [A,B], scan [A,B,C], no registry set: [A,B] persisted.
C5_Witness ==
  /\ pc[1] = "done"
  /\ branch[1] = "details"
  /\ tcrSet[1] = {}
  /\ cache0[1] = ConfigList(<<"A", "B">>)
  /\ listed[1] = <<(<<"A", 0>>), (<<"B", 1>>), (<<"C", 2>>)>>
  /\ cache[1] = ConfigList(<<"A", "B">>)

\* C6: in every orchestrator run the full reconciliation runs if and only if the
\* count fetched in the run is strictly greater than the length of the cached list
\* read in the run, and otherwise the id-only refresh runs; a run that took one
\* of the two has made no step of the other.
C6_DecisionPolicy ==
  \A n \in Networks :
    /\ branch[n] = "details" =>
         /\ numTokens[n] > localLen[n]
         /\ pc[n] \in {"filter", "partition", "probes", "done", "failed"}
         /\ passes[n] = 0 /\ batch[n] = <<>> /\ status[n] = NoStatus
    /\ branch[n] = "ids" =>
         /\ numTokens[n] <= localLen[n]
         /\ pc[n] \in {"ids", "timer", "done", "fatal"}
         /\ passes[n] >= 1
         /\ tcrRes[n] = "none" /\ scanRes[n] = "none" /\ probe[n] = NoStatus
    /\ branch[n] = "none" => pc[n] \in {"idle", "getNumTokens", "failed"}

\* C6 witness: a run that fetched a count one above the local length has
\* completed the full reconciliation.
C6_Witness ==
  /\ pc[1] = "done"
  /\ branch[1] = "details"
  /\ numTokens[1] = localLen[1] + 1
  /\ localLen[1] = 2

\* C7: after a successful full reconciliation every address of the persisted
\* list is a key of the eligible address-to-id map computed in that pass.
C7_PersistedWithinEligible ==
  \A n \in Networks :
    (pc[n] = "done" /\ branch[n] = "details")
    => AddrSet(cache[n]) \subseteq MapKeys(filtered[n])

\* C7 witness: a pass under a registry dropped the cached token B, which is not
\* eligible, and persisted the newly fetched C.
C7_Witness ==
  /\ pc[1] = "done"
  /\ branch[1] = "details"
  /\ "B" \in AddrSet(cache0[1])
  /\ "B" \notin AddrSet(cache[1])
  /\ "C" \in AddrSet(cache[1])

\* C8: an id-only refresh pass that completes leaves in the persisted list no
\* address for which hasToken returned false in that pass, and keeps every other
\* token of the cached list in its original order.
C8_RemovedTokensGone ==
  [][\A n \in Networks :
       ProcessResults(n) =>
         LET gone == {a \in Addresses : status[n][a] = "remove"}
         IN /\ AddrSet(cache'[n]) \cap gone = {}
            /\ Addrs(cache'[n]) = SelectSeq(Addrs(cache[n]), LAMBDA a : a \notin gone)]_vars

\* C8 witness: cache [A,B], a contract count of 2, hasToken(B) false: the
\* id-only refresh persisted [A].
C8_Witness ==
  /\ pc[1] = "done"
  /\ branch[1] = "ids"
  /\ cache0[1] = ConfigList(<<"A", "B">>)
  /\ numTokens[1] = 2
  /\ status[1]["B"] = "remove"
  /\ Addrs(cache[1]) = <<"A">>

\* C9: in a full reconciliation an address whose probe returned null is not in
\* the persisted list, every reused and every resolved token is, and the network
\* stays marked; a pass that failed at the probes had a probe that threw, so a
\* null result fails no pass.
C9_NullProbeExcluded ==
  \A n \in Networks :
    /\ (pc[n] = "done" /\ branch[n] = "details") =>
         /\ n \in areTokensUpdated
         /\ \A a \in Addresses :
              /\ probe[n][a] = "null" => a \notin AddrSet(cache[n])
              /\ probe[n][a] = "token" => a \in AddrSet(cache[n])
         /\ Range(localTokens[n]) \subseteq Range(cache[n])
    /\ (pc[n] = "failed" /\ failedAt[n] = "probe") =>
         \E a \in Addresses : probe[n][a] = "threw"
    /\ (pc[n] = "probes" /\ \E a \in Addresses : probe[n][a] = "null") =>
         n \in areTokensUpdated

\* C9 witness: a pass in which one probe returned null and another gave a token
\* has completed.
C9_Witness ==
  /\ pc[1] = "done"
  /\ branch[1] = "details"
  /\ 1 \in areTokensUpdated
  /\ \E a, b \in Addresses :
       /\ probe[1][a] = "null" /\ a \notin AddrSet(cache[1])
       /\ probe[1][b] = "token" /\ b \in AddrSet(cache[1])

\* C10: the delays of the retries scheduled in a run are DefaultRetryDelay, twice
\* and four times that, in this order; a timer is pending after as many failed
\* passes as delays were scheduled; the fatal error is raised after
\* DefaultMaxRetries query passes and three scheduled delays, and nothing is
\* scheduled after it.
C10_Backoff ==
  \A n \in Networks :
    LET d == DefaultRetryDelay
        k == Len(delays[n])
    IN /\ k <= DefaultMaxRetries
       /\ delays[n] = SubSeq(<<d, 2 * d, 4 * d>>, 1, k)
       /\ pc[n] = "timer" => k = passes[n]
       /\ pc[n] = "fatal" => k = DefaultMaxRetries /\ passes[n] = DefaultMaxRetries
       /\ passes[n] <= DefaultMaxRetries

\* C10 witness: three passes failed for the same token and the fatal error was
\* raised after the delays 1000, 2000, 4000.
C10_Witness ==
  /\ pc[1] = "fatal"
  /\ delays[1] = <<1000, 2000, 4000>>
  /\ Len(batch[1]) = 1

\* C11: at most one refresh task per network is in flight: while a run of a
\* network, or a retry pass it scheduled, is pending, the network is in the
\* update-state set, and no step starts another run for that network.
C11_OneTaskPerNetwork ==
  /\ [](\A n \in Networks :
          pc[n] \in {"getNumTokens", "filter", "partition", "probes", "ids", "timer"}
            => n \in areTokensUpdated)
  /\ [][\A n \in Networks :
          runs'[n] # runs[n]
            => pc[n] \notin {"getNumTokens", "filter", "partition", "probes", "ids",
                             "timer"}]_vars

\* The accessor was called while a retry pass of the only run is scheduled: it
\* returned the list that run persisted and started nothing.
C11_Witness ==
  /\ pc[1] = "timer"
  /\ runs[1] = 1
  /\ cache[1] # cache0[1]
  /\ ret = [networkId |-> 1, tokens |-> cache[1]]

\* C12: an id-only pass puts every token of the pass in exactly one of
\* removed / updated / failed; a token whose query throws keeps its record and
\* stays in the cache; the removals and new ids of the other tokens are persisted
\* by the same pass; the retry pass scheduled queries exactly the failed tokens.
C12_PartialSuccess ==
  [][\A n \in Networks :
       /\ (pc[n] = "ids" /\ pc'[n] \in {"timer", "done"}) =>
            /\ \A a \in AddrSet(batch[n]) :
                 /\ status[n][a] \in {"remove", "failed", "updated"}
                 /\ status[n][a] = "remove" => a \notin AddrSet(cache'[n])
                 /\ status[n][a] = "updated" =>
                      /\ a \in AddrSet(cache'[n])
                      /\ TokenOf(cache'[n], a).id = getTokenIdByAddress(n, a)
                 /\ status[n][a] = "failed" =>
                      /\ a \in AddrSet(cache'[n])
                      /\ TokenOf(cache'[n], a) = TokenOf(cacheAtStart[n], a)
                      /\ TokenOf(batch'[n], a) = TokenOf(cacheAtStart[n], a)
            /\ pc'[n] = "timer" <=> \E a \in AddrSet(batch[n]) : status[n][a] = "failed"
            /\ pc'[n] = "timer" =>
                 Addrs(batch'[n]) =
                   SelectSeq(Addrs(batch[n]), LAMBDA a : status[n][a] = "failed")
       /\ (pc[n] = "timer" /\ pc'[n] = "ids") =>
            /\ batch'[n] = batch[n]
            /\ \A a \in Addresses :
                 status'[n][a] = IF a \in AddrSet(batch[n]) THEN "hasToken" ELSE "none"
       /\ \A a \in Addresses :
            (status[n][a] # "failed" /\ status'[n][a] = "failed") =>
              cache'[n] = cache[n] /\ batch'[n] = batch[n]]_vars

\* A pass over A and B gave A its slot id while the query of B threw: B, with its
\* stale id, is the batch of the scheduled retry pass.
C12_Witness ==
  /\ pc[1] = "timer"
  /\ passes[1] = 1
  /\ status[1]["A"] = "updated"
  /\ status[1]["B"] = "failed"
  /\ cache[1] = <<Token("A", 1, "cfg"), Token("B", 1, "cfg")>>
  /\ batch[1] = <<Token("B", 1, "cfg")>>

\* C13: the eligible map computed by a reconciliation is, when the registry
\* returned a non-empty set, exactly the scanned slots whose address is on the
\* registry list, and otherwise exactly the cached addresses that have a scanned
\* slot, each with its slot id.
C13_Eligibility ==
  \A n \in Networks :
    (branch[n] = "details" /\ pc[n] \in {"partition", "probes", "done"}) =>
      LET registry == IF tcrApi THEN tcrTokens[n] ELSE {}
          scanned == {<<contract[n][i], i - 1>> : i \in 1..numTokens[n]}
      IN /\ registry # {} =>
              Range(filtered[n]) = {p \in scanned : p[1] \in registry}
         /\ registry = {} =>
              Range(filtered[n]) = {p \in scanned : p[1] \in AddrSet(cacheAtStart[n])}
         /\ \A i, j \in 1..Len(filtered[n]) : filtered[n][i][1] = filtered[n][j][1] => i = j

\* With registry {A, C}, cached A and B and slots B, A, C the eligible map is
\* A and C with their slots: B, cached and listed, is not eligible.
C13_Witness ==
  /\ pc[1] = "partition"
  /\ tcrTokens[1] = {"A", "C"}
  /\ AddrSet(cache[1]) = {"A", "B"}
  /\ listed[1] = <<<<"B", 0>>, <<"A", 1>>, <<"C", 2>>>>
  /\ filtered[1] = <<<<"A", 1>>, <<"C", 2>>>>

\* C14: the list a reconciliation persists is the eligible tokens already cached,
\* each the cached record unchanged (its cached id included) and never probed,
\* followed by the newly resolved tokens, each with the slot id of its address;
\* the list is persisted also when no new token was resolved.
C14_MergePersisted ==
  [][\A n \in Networks :
       (pc[n] = "probes" /\ pc'[n] = "done") =>
         LET old == AddrSet(cache[n])
             new == {a \in Addresses : probe[n][a] = "token"}
         IN /\ AddrSet(cache'[n]) = (MapKeys(filtered[n]) \cap old) \cup new
            /\ Len(cache'[n]) = Cardinality(AddrSet(cache'[n]))
            /\ \A i \in 1..Len(cache'[n]) :
                 LET t == cache'[n][i]
                 IN IF t.address \in old
                    THEN /\ t = TokenOf(cache[n], t.address)
                         /\ probe[n][t.address] = "none"
                         /\ \A j \in 1..i : cache'[n][j].address \in old
                    ELSE t = Token(t.address, getTokenIdByAddress(n, t.address), "erc20")]_vars

\* With registry {A, C} and slots B, A, C the persisted list is cached A, still
\* with its configured id 0, followed by the resolved C with slot id 2.
C14_Witness ==
  /\ pc[1] = "done"
  /\ branch[1] = "details"
  /\ contract[1] = <<"B", "A", "C">>
  /\ cacheAtStart[1] = <<Token("A", 0, "cfg"), Token("B", 1, "cfg")>>
  /\ cache[1] = <<Token("A", 0, "cfg"), Token("C", 2, "erc20")>>

\* C15: no list ever cached for a network holds two tokens with the same address.
C15_UniqueAddresses ==
  \A n \in Networks :
    \A i, j \in 1..Len(cache[n]) : cache[n][i].address = cache[n][j].address => i = j

\* A reconciliation added a resolved token to a list that kept cached ones.
C15_Witness ==
  /\ pc[1] = "done"
  /\ branch[1] = "details"
  /\ Len(cache[1]) = 2
  /\ \E a \in Addresses : probe[1][a] = "token"

\* C16: a step of the accessor or of the refresh task of one network changes
\* neither the cached list of another network nor that network's membership in
\* the update-state set.
C16_NetworkIsolation ==
  [][\A n, m \in Networks :
       (n # m /\ NetworkStep(n)) =>
         /\ cache'[m] = cache[m]
         /\ m \in areTokensUpdated' <=> m \in areTokensUpdated]_vars

\* The run of network 4 ended in the failure handler after the second id pass
\* of network 1 had persisted the slot id of its token.
C16_Witness ==
  /\ pc[1] = "done"
  /\ passes[1] = 2
  /\ cache[1] = <<Token("A", 0, "cfg")>>
  /\ 1 \in areTokensUpdated
  /\ pc[4] = "failed"
  /\ failedAt[4] = "probe"
  /\ cache[4] = cache0[4]

\* C17: every triggered refresh terminates when external calls return or fail:
\* a pending task reaches completed, failed or fatal; a completed run leaves the
\* network marked and a failed one unmarked; at most DefaultMaxRetries query
\* passes are made, the chain ending with no failed token or with the fatal
\* error after the last pass; nothing of a task that ended so runs again.
C17_Termination ==
  /\ \A n \in Networks :
       (pc[n] \in {"getNumTokens", "filter", "partition", "probes", "ids", "timer"})
         ~> (pc[n] \in {"done", "failed", "fatal"})
  /\ [](\A n \in Networks :
          /\ pc[n] = "done" => n \in areTokensUpdated
          /\ pc[n] = "failed" => n \notin areTokensUpdated
          /\ passes[n] <= DefaultMaxRetries
          /\ (pc[n] = "done" /\ branch[n] = "ids") =>
               \A a \in Addresses : status[n][a] # "failed"
          /\ pc[n] = "fatal" =>
               /\ passes[n] = DefaultMaxRetries
               /\ \E a \in Addresses : status[n][a] = "failed")
  /\ [][\A n \in Networks :
          pc[n] \in {"done", "fatal"} =>
            /\ pc'[n] = pc[n]
            /\ passes'[n] = passes[n]
            /\ delays'[n] = delays[n]
            /\ cache'[n] = cache[n]]_vars

\* The chain of retry passes ended with the fatal error after three passes.
C17_Witness ==
  /\ pc[1] = "fatal"
  /\ passes[1] = 3
  /\ Len(delays[1]) = 3

\* C18: a run that ends in the failure handler has persisted nothing: until a
\* reconciliation persists its merged list, and after a run failed, the cached
\* list is the list cached when the run started, and after the failure the
\* network is absent from the update-state set, as it was before the run.
C18_FailedRunPersistsNothing ==
  \A n \in Networks :
    /\ pc[n] \in {"getNumTokens", "filter", "partition", "probes", "failed"} =>
         cache[n] = cacheAtStart[n]
    /\ pc[n] = "failed" =>
         /\ n \notin areTokensUpdated
         /\ failedAt[n] \in {"getNumTokens", "tcr", "scan", "probe"}

\* The metadata fetch of C threw after cached A had been reused: the run failed
\* and the cached list is the one the run started with.
C18_Witness ==
  /\ pc[1] = "failed"
  /\ failedAt[1] = "probe"
  /\ probe[1]["C"] = "threw"
  /\ Len(localTokens[1]) = 1
  /\ Len(cache[1]) = 2
  /\ cache[1] = cacheAtStart[1]

\* C19: an id pass, first or delayed, builds the list it persists from the list
\* cached when the pass completes: it adds no address to that list, so a token an
\* earlier pass removed is not put back, and it leaves every record it did not
\* update as it is cached.
C19_RebuildFromCurrentList ==
  [][\A n \in Networks :
       (branch[n] = "ids" /\ branch'[n] = "ids") =>
         /\ AddrSet(cache'[n]) \subseteq AddrSet(cache[n])
         /\ (pc[n] = "ids" /\ pc'[n] \in {"timer", "done"}) =>
              /\ Addrs(cache'[n]) =
                   SelectSeq(Addrs(cache[n]), LAMBDA a : status[n][a] # "remove")
              /\ \A a \in AddrSet(cache'[n]) :
                   status[n][a] # "updated" => TokenOf(cache'[n], a) = TokenOf(cache[n], a)]_vars

\* The first pass removed B while the query of A threw; the retry pass updated A
\* and persisted a list without B.
C19_Witness ==
  /\ pc[1] = "done"
  /\ passes[1] = 2
  /\ status[1]["A"] = "updated"
  /\ cacheAtStart[1] = <<Token("A", 0, "cfg"), Token("B", 1, "cfg")>>
  /\ cache[1] = <<Token("A", 0, "cfg")>>

====
